---- MODULE Spec2Model ----
(***************************************************************************)
(* Event / attendee discovery of the event-intelligence platform:          *)
(*   - TwitterRateLimiter   (services/rate_limiter.py)                     *)
(*   - TwitterClient        (services/twitter_client.py)                   *)
(*   - SmartAttendeeEngine  (engines/attendee_engine.py)                   *)
(*   - SmartEventEngine     (engines/event_engine.py, both versions)       *)
(*                                                                         *)
(* Conventions.  Time is counted in minutes (`now`); an unset time (None)  *)
(* is NoTime.  Text is modelled by TLA+ strings, read character by character  *)
(* with SubSeq.  Scores are counted in hundredths (0.35 is 35).            *)
(***************************************************************************)
EXTENDS Integers, Sequences, FiniteSets, TLC

VARIABLES
    now,                    \* datetime.now(), in minutes
    rate_limits,            \* TwitterRateLimiter.rate_limits
    acq,                    \* history: per endpoint, the attempts and the permits of the current window
    client_v2,              \* TwitterClient.client_v2 ("None" or "Client")
    rate_limit_remaining,   \* TwitterClient.rate_limit_remaining
    last_reset_time,        \* TwitterClient.last_reset_time
    total_searches_used,    \* TwitterClient.total_searches_used
    thr,                    \* the callers of search_recent_tweets_safe: position and locals
    window_permits,         \* history: searches the quota check let through since the client's last reset
    searches,               \* history: searches the quota check let through, in all
    kind,                   \* the run: "dated" or "legacy" discover_events, "attendees"
    pc,                     \* where the run is: "start", "collect", "done"
    req,                    \* the arguments and the environment of the run
    queries,                \* the queries of the loop the run is in
    qi,                     \* the index in `queries` of the next query
    all_items,              \* all_events / all_attendees
    seen,                   \* seen_events / seen_usernames
    result,                 \* what discover_events / discover_attendees returned
    issued,                 \* history: provider calls made by the run
    last_issue_count,       \* history: len(all_items) when the latest call was made
    ungated,                \* history: provider calls made without a rate-limit check
    offered,                \* history: the valid records the provider returned to the run
    firsts                  \* history: of the events that passed the filters, the first of each key

limiterVars == <<rate_limits, acq>>
clientVars == <<client_v2, rate_limit_remaining, last_reset_time, total_searches_used>>
sharedVars == <<thr, window_permits, searches>>
runVars == <<kind, pc, req, queries, qi, all_items, seen, result, issued,
             last_issue_count, ungated, offered,
                   firsts>>
vars == <<now, rate_limits, acq, client_v2, rate_limit_remaining, last_reset_time,
          total_searches_used, thr, window_permits, searches, kind, pc, req, queries,
          qi, all_items, seen, result, issued, last_issue_count, ungated, offered,
                   firsts>>

\* reset_time: None
NoTime == -1

\* ------------------------------------------------------------------ bounds
\* The clock stops at MaxTime.
MaxTime == 31
\* Denied attempts explored per endpoint and window.
MaxDenied == 2
\* post_tweet attempts explored per window (its limit of 100 is never exhausted).
MaxPostAttempts == 2
\* Searches explored in one behaviour.
MaxSearches == 5
\* The quota left, at most, when a behaviour starts with a partly used window.
MaxLeft == 2
\* The largest max_results asked for.
MaxResults == 2
\* The records (events, tweets) of one provider response.
MaxResponse == 2

\* ------------------------------------------------------------------ clock
\* Time passes between calls: by exactly one search window, or by one minute more.
Jumps == {15, 16}

Tick ==
    /\ \E d \in Jumps :
        /\ now + d <= MaxTime
        /\ now' = now + d
    /\ UNCHANGED <<limiterVars, clientVars, sharedVars, runVars>>

\* -------------------------------------------------------------------- text
\* Python's str and re, on the characters the model uses.
UpperCase == "ABCDEFGHIJKLMNOPQRSTUVWXYZ"
LowerCase == "abcdefghijklmnopqrstuvwxyz"
Digits == "0123456789"

Ch(s, i) == SubSeq(s, i, i)

InStr(c, alphabet) == \E i \in 1..Len(alphabet) : Ch(alphabet, i) = c

IndexIn(c, alphabet) == CHOOSE i \in 1..Len(alphabet) : Ch(alphabet, i) = c

\* \s
IsSpace(c) == c = " "

IsDigit(c) == InStr(c, Digits)

\* \w
IsWord(c) == InStr(c, UpperCase) \/ InStr(c, LowerCase) \/ IsDigit(c) \/ c = "_"

LowerCh(c) == IF InStr(c, UpperCase) THEN Ch(LowerCase, IndexIn(c, UpperCase)) ELSE c

\* str.lower()
RECURSIVE ToLower(_)
ToLower(s) == IF s = "" THEN "" ELSE LowerCh(Head(s)) \o ToLower(Tail(s))

\* t in s
Contains(s, t) ==
    \E i \in 1..(Len(s) - Len(t) + 1) : SubSeq(s, i, i + Len(t) - 1) = t

\* str.strip()
RECURSIVE LStrip(_)
LStrip(s) == IF s # "" /\ IsSpace(Head(s)) THEN LStrip(Tail(s)) ELSE s

RECURSIVE RStrip(_)
RStrip(s) ==
    IF s # "" /\ IsSpace(Ch(s, Len(s))) THEN RStrip(SubSeq(s, 1, Len(s) - 1)) ELSE s

Strip(s) == RStrip(LStrip(s))

\* re.sub(r'\s+', ' ', s)
RECURSIVE CollapseSpaces(_)
CollapseSpaces(s) ==
    IF s = "" THEN ""
    ELSE IF IsSpace(Head(s))
         THEN " " \o CollapseSpaces(LStrip(s))
         ELSE Head(s) \o CollapseSpaces(Tail(s))

\* re.sub(r'[^\w\s]', repl, s), repl being '' or ' '
RECURSIVE SubNonWord(_, _)
SubNonWord(s, repl) ==
    IF s = "" THEN ""
    ELSE (IF IsWord(Head(s)) \/ IsSpace(Head(s)) THEN Head(s) ELSE repl)
            \o SubNonWord(Tail(s), repl)

\* The characters of s before the first one that is (stop = TRUE) or is not a space.
RECURSIVE TakeUntil(_, _)
TakeUntil(s, stopAtSpace) ==
    IF s = "" \/ (IsSpace(Head(s)) = stopAtSpace) THEN ""
    ELSE Head(s) \o TakeUntil(Tail(s), stopAtSpace)

\* str.split(): the whitespace-separated words
RECURSIVE Split(_)
Split(s) ==
    LET t == LStrip(s)
        w == TakeUntil(t, TRUE)
    IN  IF t = "" THEN <<>>
        ELSE <<w>> \o Split(SubSeq(t, Len(w) + 1, Len(t)))

\* str.split(sep) for a one-character separator
RECURSIVE SplitOn(_, _)
SplitOn(s, sep) ==
    IF \E i \in 1..Len(s) : Ch(s, i) = sep
    THEN LET i == CHOOSE k \in 1..Len(s) :
                    Ch(s, k) = sep /\ \A j \in 1..(k - 1) : Ch(s, j) # sep
         IN  <<SubSeq(s, 1, i - 1)>> \o SplitOn(SubSeq(s, i + 1, Len(s)), sep)
    ELSE <<s>>

\* str.split(t)[0] for a separator text t: s up to the first occurrence of t
BeforeFirst(s, t) ==
    IF Contains(s, t)
    THEN LET i == CHOOSE k \in 1..(Len(s) - Len(t) + 1) :
                    /\ SubSeq(s, k, k + Len(t) - 1) = t
                    /\ \A j \in 1..(k - 1) : SubSeq(s, j, j + Len(t) - 1) # t
         IN  SubSeq(s, 1, i - 1)
    ELSE s

\* int() of a text of digits
RECURSIVE ToInt(_)
ToInt(s) ==
    IF s = "" THEN 0
    ELSE 10 * ToInt(SubSeq(s, 1, Len(s) - 1)) + (IndexIn(Ch(s, Len(s)), Digits) - 1)

\* re.search(r'(\d{1,2})', s): the first digit and the digit after it, if any; "" for no match
FirstDigits(s) ==
    IF \E i \in 1..Len(s) : IsDigit(Ch(s, i))
    THEN LET i == CHOOSE k \in 1..Len(s) :
                    IsDigit(Ch(s, k)) /\ \A j \in 1..(k - 1) : ~IsDigit(Ch(s, j))
         IN  IF i < Len(s) /\ IsDigit(Ch(s, i + 1)) THEN SubSeq(s, i, i + 1) ELSE Ch(s, i)
    ELSE ""

\* The start of the run of spaces that ends just before position j (j itself if none).
RECURSIVE RunStart(_, _)
RunStart(s, j) == IF j > 1 /\ IsSpace(Ch(s, j - 1)) THEN RunStart(s, j - 1) ELSE j

\* re.sub(r'\s+WORD\s+.+$', '', s, flags=re.IGNORECASE) for WORD in lower case
CutFromWord(s, word) ==
    LET n == Len(word)
        Hit(j) == /\ j >= 2 /\ IsSpace(Ch(s, j - 1))
                  /\ ToLower(SubSeq(s, j, j + n - 1)) = word
                  /\ j + n <= Len(s) /\ IsSpace(Ch(s, j + n))
                  /\ j + n + 1 <= Len(s)
    IN  IF \E j \in 1..Len(s) : Hit(j)
        THEN LET j == CHOOSE k \in 1..Len(s) : Hit(k) /\ \A l \in 1..(k - 1) : ~Hit(l)
             IN  SubSeq(s, 1, RunStart(s, j) - 1)
        ELSE s

\* re.sub(r'\s*C\s*.+$', '', s) (needTail) and re.sub(r'\s*C.*$', '', s) for a character C
CutFromChar(s, c, needTail) ==
    LET Hit(j) == Ch(s, j) = c /\ (needTail => j + 1 <= Len(s))
    IN  IF \E j \in 1..Len(s) : Hit(j)
        THEN LET j == CHOOSE k \in 1..Len(s) : Hit(k) /\ \A l \in 1..(k - 1) : ~Hit(l)
             IN  SubSeq(s, 1, RunStart(s, j) - 1)
        ELSE s

\* ---------------------------------------------------------------- calendar
\* A datetime at midnight is [y, m, d]; NoDate is None.
NoDate == [y |-> 0, m |-> 0, d |-> 0]

IsLeap(y) == (y % 4 = 0 /\ y % 100 # 0) \/ y % 400 = 0

DaysIn(y, m) ==
    IF m = 2 THEN (IF IsLeap(y) THEN 29 ELSE 28)
    ELSE IF m \in {4, 6, 9, 11} THEN 30 ELSE 31

\* datetime(y, m, d) and datetime.replace raise ValueError for a day the month has not.
ValidDate(dt) == dt.m \in 1..12 /\ dt.d >= 1 /\ dt.d <= DaysIn(dt.y, dt.m)

Ordinal(dt) == dt.y * 10000 + dt.m * 100 + dt.d

\* a <= b, a < b on datetimes at midnight
DateLE(a, b) == Ordinal(a) <= Ordinal(b)
DateLT(a, b) == Ordinal(a) < Ordinal(b)

MonthNames == <<"January", "February", "March", "April", "May", "June", "July",
                "August", "September", "October", "November", "December">>

\* The keys of `months` in dictionary order; every full name contains its
\* abbreviation, which comes first, so the abbreviations decide.
MonthAbbrevs == <<"jan", "feb", "mar", "apr", "may", "jun", "jul", "aug", "sep",
                  "oct", "nov", "dec">>

\* str(n) for n >= 0
RECURSIVE ToStr(_)
ToStr(n) ==
    IF n < 10 THEN Ch(Digits, n + 1) ELSE ToStr(n \div 10) \o Ch(Digits, (n % 10) + 1)

\* strftime("%d")
TwoDigits(n) == IF n < 10 THEN "0" \o ToStr(n) ELSE ToStr(n)

\* ----------------------------------------------- SmartEventEngine: records
\* U+2013 (the en dash of "8 - 11 PM") is written "~".
EnDash == "~"

\* A record of events_results: title and address after _safe_extract, and the
\* date field, which is absent ("missing"), a text, or a dictionary with the
\* keys start_date and when ("" for an absent key).
TextDate(t) == [kind |-> "text", text |-> t, start_date |-> "", when |-> ""]
DictDate(sd, w) == [kind |-> "dict", text |-> "", start_date |-> sd, when |-> w]
MissingDate == [kind |-> "missing", text |-> "", start_date |-> "", when |-> ""]

\* _safe_extract(event_data.get('date', 'Date not specified')): str() of the field
RawDateText(date) ==
    CASE date.kind = "missing" -> "Date not specified"
      [] date.kind = "text" -> date.text
      [] date.kind = "dict" ->
            "{" \o (IF date.start_date # ""
                    THEN "'start_date': '" \o date.start_date \o "'" ELSE "")
                \o (IF date.start_date # "" /\ date.when # "" THEN ", " ELSE "")
                \o (IF date.when # "" THEN "'when': '" \o date.when \o "'" ELSE "")
                \o "}"

\* _clean_date_display: the text shown as the event's date
_clean_date_display(date) ==
    LET raw == RawDateText(date)
    IN  IF raw = "" THEN "Date not specified"
        ELSE IF date.kind = "dict" /\ date.when # "" THEN date.when
        ELSE IF date.kind = "dict" /\ date.start_date # ""
             THEN "Starts: " \o date.start_date
        ELSE raw

\* _clean_event_name
_clean_event_name(title) ==
    IF title = "" THEN "Event"
    ELSE LET c1 == CutFromWord(title, "at")
             c2 == CutFromWord(c1, "in")
             c3 == CutFromChar(c2, "-", TRUE)
             c4 == CutFromChar(c3, "|", FALSE)
             c5 == CutFromChar(c4, "@", TRUE)
             clean_name == Strip(CollapseSpaces(c5))
         IN  IF clean_name # "" THEN clean_name ELSE title

\* _extract_venue
_extract_venue(address) ==
    IF address = "" THEN "Various Venues"
    ELSE LET venue == Strip(SplitOn(address, ",")[1])
         IN  IF Len(venue) > 3 THEN venue ELSE "Various Venues"

\* _extract_location
_extract_location(address) ==
    IF address = "" THEN "Location not specified"
    ELSE LET parts == SplitOn(address, ",")
         IN  IF Len(parts) > 1 THEN Strip(parts[Len(parts)]) ELSE address

\* _classify_event_type: the first category, in dictionary order, one of whose
\* keywords occurs in the text
CategoryKeywords ==
    << <<"music", {"concert", "music", "dj", "band", "live music"}>>,
       <<"sports", {"sports", "game", "match", "tournament"}>>,
       <<"arts", {"art", "theater", "exhibition", "gallery"}>>,
       <<"food", {"food", "drink", "culinary", "wine"}>>,
       <<"festival", {"festival", "cultural"}>>,
       <<"conference", {"conference", "summit", "workshop"}>> >>

_classify_event_type(text) ==
    LET text_lower == ToLower(text)
        Hit(i) == \E k \in CategoryKeywords[i][2] : Contains(text_lower, k)
    IN  IF text = "" \/ ~\E i \in 1..Len(CategoryKeywords) : Hit(i) THEN "other"
        ELSE CategoryKeywords[CHOOSE i \in 1..Len(CategoryKeywords) :
                                Hit(i) /\ \A j \in 1..(i - 1) : ~Hit(j)][1]

\* _parse_event_data_clean returns None for these titles
NoTitle(title) == title = "" \/ title = "Unknown Event"

\* _parse_event_data_clean (date_of is _clean_date_display) and the legacy
\* _parse_event_data (date_of is the raw text)
_parse_event_data(r, cleanDisplay) ==
    LET clean_name == _clean_event_name(r.title)
    IN  [event_name |-> clean_name,
         exact_date |-> IF cleanDisplay THEN _clean_date_display(r.date)
                        ELSE RawDateText(r.date),
         exact_venue |-> _extract_venue(r.address),
         location |-> _extract_location(r.address),
         category |-> _classify_event_type(clean_name),
         hype_score |-> 50]

\* _is_valid_event
GenericNames == {"event", "events", "unknown", "unknown event"}

\* (mutant of _is_valid_event: the test against generic_names is dropped)
_is_valid_event_noGeneric(event) ==
    ~(event.event_name = "" \/ Len(Strip(event.event_name)) < 3)

_is_valid_event(event) ==
    /\ ~(event.event_name = "" \/ Len(Strip(event.event_name)) < 3)
    /\ ToLower(event.event_name) \notin GenericNames

\* _create_event_key raises IndexError for a date text of spaces only
KeyRaises(event) == event.exact_date # "" /\ Split(event.exact_date) = <<>>

\* _create_event_key
_create_event_key(event) ==
    Strip(CollapseSpaces(SubNonWord(ToLower(event.event_name), ""))) \o "_"
        \o (IF event.exact_date # "" THEN Split(event.exact_date)[1] ELSE "nodate")

\* _calculate_hype_score, in hundredths
HypeKeywords == {"festival", "concert", "championship", "tournament", "expo",
                 "summit", "conference", "awards", "gala", "premiere"}
PrestigiousVenues == {"stadium", "arena", "center", "garden", "hall"}

CategoryWeight(category) ==
    CASE category = "music" -> 30
      [] category = "festival" -> 40
      [] category = "sports" -> 35
      [] category = "conference" -> 20
      [] category = "arts" -> 25
      [] category = "food" -> 15
      [] OTHER -> 10

Min(a, b) == IF a <= b THEN a ELSE b

\* (mutant of _calculate_hype_score: `min(1.0, score)` is dropped)
_calculate_hype_score_unclamped(event) ==
    10 * Cardinality({k \in HypeKeywords : Contains(ToLower(event.event_name), k)})
    + 15 * Cardinality({v \in PrestigiousVenues : Contains(ToLower(event.exact_venue), v)})
    + CategoryWeight(event.category)

_calculate_hype_score(event) ==
    LET name_lower == ToLower(event.event_name)
        venue_lower == ToLower(event.exact_venue)
        score == 10 * Cardinality({k \in HypeKeywords : Contains(name_lower, k)})
                 + 15 * Cardinality({v \in PrestigiousVenues : Contains(venue_lower, v)})
                 + CategoryWeight(event.category)
    IN  Min(100, score)

\* ------------------------------------------------ SmartEventEngine: dates
\* The month a date text names: the first key of `months` that occurs in it; 0 if none.
MonthOf(clean_str) ==
    LET low == ToLower(clean_str)
        Hit(i) == Contains(low, MonthAbbrevs[i])
    IN  IF \E i \in 1..12 : Hit(i)
        THEN CHOOSE i \in 1..12 : Hit(i) /\ \A j \in 1..(i - 1) : ~Hit(j)
        ELSE 0

\* _parse_date_string: the text the month and the day are looked for in
DatePart(date_str) ==
    LET clean_str == Strip(date_str)
    IN  IF Contains(clean_str, ",") /\ MonthOf(clean_str) # 0
        THEN Strip(BeforeFirst(BeforeFirst(BeforeFirst(
                    SplitOn(clean_str, ",")[2], EnDash), "PM"), "AM"))
        ELSE clean_str

\* _parse_date_string; today is the date of datetime.now() and afterMidnight
\* tells whether its time of day is past 00:00:00
_parse_date_string(date_str, today, afterMidnight) ==
    LET clean_str == DatePart(date_str)
        month_num == MonthOf(clean_str)
        day_match == FirstDigits(clean_str)
        proposed_date == [y |-> today.y, m |-> month_num, d |-> ToInt(day_match)]
        next_year == [proposed_date EXCEPT !.y = today.y + 1]
        in_past == DateLT(proposed_date, today)
                    \/ (proposed_date = today /\ afterMidnight)
    IN  IF date_str = "" \/ month_num = 0 \/ day_match = "" THEN NoDate
        ELSE IF ~ValidDate(proposed_date) THEN NoDate
        ELSE IF ~in_past THEN proposed_date
        ELSE IF ValidDate(next_year) THEN next_year ELSE NoDate

\* _parse_serpapi_date of an event's exact_date; a text starting with "{" that
\* json.loads accepts here is "{}", which holds no date, and parsing goes on
\* with the whole text
_parse_serpapi_date(date_info, today, afterMidnight) ==
    IF date_info = "" THEN NoDate
    ELSE _parse_date_string(date_info, today, afterMidnight)

\* ------------------------------------------------------ TwitterRateLimiter
SearchLimit == 60
SearchWindow == 15
PostLimit == 100
PostWindow == 1440
RetweetLimit == 5
RetweetWindow == 15

Endpoints == {"search_recent", "post_tweet", "retweet"}

\* setup_advanced_limits
setup_advanced_limits ==
    [e \in Endpoints |->
        CASE e = "search_recent" ->
                [limit |-> SearchLimit, remaining |-> SearchLimit,
                 reset_time |-> NoTime, window_minutes |-> SearchWindow]
          [] e = "post_tweet" ->
                [limit |-> PostLimit, remaining |-> PostLimit,
                 reset_time |-> NoTime, window_minutes |-> PostWindow]
          [] e = "retweet" ->
                [limit |-> RetweetLimit, remaining |-> RetweetLimit,
                 reset_time |-> NoTime, window_minutes |-> RetweetWindow]]

\* The window as check_rate_limit leaves it before it looks at `remaining`:
\* the reset time initialised when unset, the window reset when it has passed.
InitResetTime(info, t) ==
    IF info.reset_time = NoTime
    THEN [info EXCEPT !.reset_time = t + info.window_minutes]
    ELSE info

WindowPassed(info, t) == t > info.reset_time

ResetWindow(info, t) ==
    IF WindowPassed(info, t)
    THEN [info EXCEPT !.remaining = info.limit,
                      !.reset_time = t + info.window_minutes]
    ELSE info

\* (mutant of HasRemaining: the off-by-one test `remaining >= 0`)
HasRemaining_offByOne(info) == info.remaining >= 0

HasRemaining(info) == info.remaining > 0

\* (mutant of Charge: a denied acquisition is charged too)
Charge_always(info) == [info EXCEPT !.remaining = info.remaining - 1]

\* `if limit_info['remaining'] > 0: limit_info['remaining'] -= 1`; a denied
\* acquisition writes nothing.
Charge(info) ==
    IF HasRemaining(info)
    THEN [info EXCEPT !.remaining = info.remaining - 1]
    ELSE info

\* The attempts explored on an endpoint within one window.
AttemptCap(endpoint, info) ==
    IF endpoint = "post_tweet" THEN MaxPostAttempts ELSE info.limit + MaxDenied

\* check_rate_limit(endpoint), the whole body under self.lock.
\* `allowed` is the value returned.
check_rate_limit(endpoint, allowed) ==
    IF endpoint \notin DOMAIN rate_limits
    THEN /\ allowed = TRUE
         /\ UNCHANGED limiterVars
    ELSE LET i0 == rate_limits[endpoint]
             i1 == InitResetTime(i0, now)
             i2 == ResetWindow(i1, now)
             restarted == i0.reset_time = NoTime \/ WindowPassed(i1, now)
             n == IF restarted THEN 1 ELSE acq[endpoint].n + 1
         IN  /\ allowed = HasRemaining(i2)
             /\ n <= AttemptCap(endpoint, i2)
             /\ rate_limits' = [rate_limits EXCEPT ![endpoint] = Charge(i2)]
             /\ acq' = [acq EXCEPT ![endpoint] =
                    [n |-> n,
                     last |-> IF HasRemaining(i2) THEN "allowed" ELSE "denied",
                     reset |-> WindowPassed(i1, now),
                     at |-> now,
                     wins |-> IF WindowPassed(i1, now) THEN @.wins + 1 ELSE @.wins,
                     granted |-> (IF WindowPassed(i1, now) THEN 0 ELSE @.granted)
                                 + (IF HasRemaining(i2) THEN 1 ELSE 0)]]

Acquire ==
    /\ \E e \in Endpoints \cup {"unknown"} : \E allowed \in BOOLEAN :
            check_rate_limit(e, allowed)
    /\ UNCHANGED <<now, clientVars, sharedVars, runVars>>

\* TwitterRateLimiter.__init__
NewLimiter ==
    /\ rate_limits = setup_advanced_limits
    /\ acq = [e \in Endpoints |->
                [n |-> 0, last |-> "none", reset |-> FALSE, at |-> 0, wins |-> 0,
                 granted |-> 0]]

\* ----------------------------------------------------------- TwitterClient
ClientLimit == 60
\* 900 seconds
ClientWindow == 15

Threads == {"t1", "t2"}

\* TwitterClient.__init__, before setup_clients
NewClient ==
    /\ rate_limit_remaining = ClientLimit
    /\ last_reset_time = now
    /\ total_searches_used = 0
    /\ window_permits = 0

\* The client after `used` successful searches made one after the other at time 0.
UsedClient(used) ==
    /\ rate_limit_remaining = ClientLimit - used
    /\ last_reset_time = now
    /\ total_searches_used = used
    /\ window_permits = used

\* _check_rate_limit: the window is reset every 15 minutes
ClientWindowOver == now - last_reset_time >= ClientWindow

\* (mutant of QuotaLeft: a search is let through with no quota left)
QuotaLeft_always(remaining) == TRUE

\* _check_rate_limit: the value returned, given the remaining count after the reset
QuotaLeft(remaining) == ~(remaining <= 0)

\* search_recent_tweets_safe, first step: _check_rate_limit(); a denied search returns None.
SearchCheck(t) ==
    /\ thr[t].pc = "idle"
    /\ searches < MaxSearches
    /\ LET remaining == IF ClientWindowOver THEN ClientLimit ELSE rate_limit_remaining
           permits == IF ClientWindowOver THEN 0 ELSE window_permits
       IN  /\ rate_limit_remaining' = remaining
           /\ last_reset_time' = IF ClientWindowOver THEN now ELSE last_reset_time
           /\ total_searches_used' = IF ClientWindowOver THEN 0 ELSE total_searches_used
           /\ IF QuotaLeft(remaining)
              THEN /\ thr' = [thr EXCEPT ![t].pc = "call"]
                   /\ window_permits' = permits + 1
                   /\ searches' = searches + 1
              ELSE /\ thr' = thr
                   /\ window_permits' = permits
                   /\ searches' = searches
    /\ UNCHANGED <<now, limiterVars, client_v2, runVars>>

\* search_recent_tweets_safe, second step: client_v2.search_recent_tweets(...), which
\* returns a response or raises; on an exception the except clause returns None.
SearchCall(t) ==
    /\ thr[t].pc = "call"
    /\ \E raised \in BOOLEAN :
            thr' = [thr EXCEPT ![t].pc = IF raised THEN "idle" ELSE "load_remaining"]
    /\ UNCHANGED <<now, limiterVars, clientVars, window_permits, searches, runVars>>

\* self.rate_limit_remaining -= 1: the read ...
LoadRemaining(t) ==
    /\ thr[t].pc = "load_remaining"
    /\ thr' = [thr EXCEPT ![t].pc = "store_remaining", ![t].tmp = rate_limit_remaining]
    /\ UNCHANGED <<now, limiterVars, clientVars, window_permits, searches, runVars>>

\* ... and the write.
StoreRemaining(t) ==
    /\ thr[t].pc = "store_remaining"
    /\ rate_limit_remaining' = thr[t].tmp - 1
    /\ thr' = [thr EXCEPT ![t].pc = "load_used", ![t].tmp = 0]
    /\ UNCHANGED <<now, limiterVars, client_v2, last_reset_time, total_searches_used,
                   window_permits, searches, runVars>>

\* self.total_searches_used += 1: the read ...
LoadUsed(t) ==
    /\ thr[t].pc = "load_used"
    /\ thr' = [thr EXCEPT ![t].pc = "store_used", ![t].tmp = total_searches_used]
    /\ UNCHANGED <<now, limiterVars, clientVars, window_permits, searches, runVars>>

\* ... and the write; the response is returned.
StoreUsed(t) ==
    /\ thr[t].pc = "store_used"
    /\ total_searches_used' = thr[t].tmp + 1
    /\ thr' = [thr EXCEPT ![t].pc = "idle", ![t].tmp = 0]
    /\ UNCHANGED <<now, limiterVars, client_v2, rate_limit_remaining, last_reset_time,
                   window_permits, searches, runVars>>

NoCallers ==
    /\ thr = [t \in Threads |-> [pc |-> "idle", tmp |-> 0]]
    /\ searches = 0

\* No discover_events / discover_attendees call is in progress.
NoRequest == [max_results |-> 0]

NoRun ==
    /\ kind = "none"
    /\ pc = "done"
    /\ req = NoRequest
    /\ queries = <<>>
    /\ qi = 1
    /\ all_items = <<>>
    /\ seen = {}
    /\ result = <<>>
    /\ issued = 0
    /\ last_issue_count = 0
    /\ ungated = 0
    /\ offered = {}
    /\ firsts = <<>>

\* Several discovery runs share one client, fresh or with its window partly used.
InitShared ==
    /\ now = 0
    /\ NewLimiter
    /\ client_v2 = "Client"
    /\ \E left \in {ClientLimit} \cup 0..MaxLeft : UsedClient(ClientLimit - left)
    /\ NoCallers
    /\ NoRun

NextShared ==
    \/ \E t \in Threads : SearchCheck(t)
    \/ \E t \in Threads : SearchCall(t)
    \/ \E t \in Threads : LoadRemaining(t)
    \/ \E t \in Threads : StoreRemaining(t)
    \/ \E t \in Threads : LoadUsed(t)
    \/ \E t \in Threads : StoreUsed(t)
    \/ Tick

SpecShared == InitShared /\ [][NextShared]_vars

InitLimiter ==
    /\ now = 0
    /\ NewLimiter
    /\ client_v2 = "None"
    /\ NewClient
    /\ NoCallers
    /\ NoRun

NextLimiter == Acquire \/ Tick

SpecLimiter == InitLimiter /\ [][NextLimiter]_vars

\* ------------------------------ TwitterRateLimiter, statement by statement
\* Threads share one limiter; the window followed is the one of this endpoint.
StatusEndpoint == "retweet"

\* The positions of a thread inside `with self.lock:` of check_rate_limit.
CheckSteps == {"check_init", "check_reset", "check_reset_time", "check_charge"}

\* self.lock is held by a thread that is inside the with block.
LockFree == \A t \in Threads : thr[t].pc \notin CheckSteps

Window == rate_limits[StatusEndpoint]

\* `with self.lock:` the thread waits until the lock is free
CheckEnter(t) ==
    /\ thr[t].pc = "idle"
    /\ LockFree
    /\ thr' = [thr EXCEPT ![t].pc = "check_init"]
    /\ UNCHANGED <<now, limiterVars, clientVars, window_permits, searches, runVars>>

\* `if not limit_info['reset_time']: limit_info['reset_time'] = now + window`
CheckInitResetTime(t) ==
    /\ thr[t].pc = "check_init"
    /\ rate_limits' = [rate_limits EXCEPT ![StatusEndpoint] = InitResetTime(Window, now)]
    /\ thr' = [thr EXCEPT ![t].pc = "check_reset"]
    /\ UNCHANGED <<now, acq, clientVars, window_permits, searches, runVars>>

\* `if now > limit_info['reset_time']: limit_info['remaining'] = limit_info['limit']`
CheckResetRemaining(t) ==
    /\ thr[t].pc = "check_reset"
    /\ IF WindowPassed(Window, now)
       THEN /\ rate_limits' = [rate_limits EXCEPT ![StatusEndpoint].remaining = Window.limit]
            /\ acq' = [acq EXCEPT ![StatusEndpoint].granted = 0,
                                  ![StatusEndpoint].wins = @ + 1]
            /\ thr' = [thr EXCEPT ![t].pc = "check_reset_time"]
       ELSE /\ rate_limits' = rate_limits
            /\ acq' = acq
            /\ thr' = [thr EXCEPT ![t].pc = "check_charge"]
    /\ UNCHANGED <<now, clientVars, window_permits, searches, runVars>>

\* `limit_info['reset_time'] = now + timedelta(minutes=...)`, the second
\* statement of the reset
CheckResetTime(t) ==
    /\ thr[t].pc = "check_reset_time"
    /\ rate_limits' = [rate_limits EXCEPT
                            ![StatusEndpoint].reset_time = now + Window.window_minutes]
    /\ thr' = [thr EXCEPT ![t].pc = "check_charge"]
    /\ UNCHANGED <<now, acq, clientVars, window_permits, searches, runVars>>

\* `if limit_info['remaining'] > 0: ... -= 1; return True / else: return False`;
\* the lock is released on return.
CheckCharge(t) ==
    /\ thr[t].pc = "check_charge"
    /\ rate_limits' = [rate_limits EXCEPT ![StatusEndpoint] = Charge(Window)]
    /\ acq' = [acq EXCEPT ![StatusEndpoint].granted =
                    IF HasRemaining(Window) THEN @ + 1 ELSE @]
    /\ thr' = [thr EXCEPT ![t].pc = "idle"]
    /\ UNCHANGED <<now, clientVars, window_permits, searches, runVars>>

\* get_limits_status takes no lock.  `if limit_info['reset_time']: reset_in = ...`
\* reads the reset time of the window ...
StatusReadResetTime(t) ==
    /\ thr[t].pc = "idle"
    /\ thr' = [thr EXCEPT ![t].pc = "status_remaining", ![t].tmp = Window.reset_time]
    /\ UNCHANGED <<now, limiterVars, clientVars, window_permits, searches, runVars>>

\* A reset time with a full count: a window that no call of check_rate_limit
\* leaves behind, since a call that sets or renews the reset time finds
\* remaining > 0 and charges the permit before it returns.
HalfReset(reset_time, remaining, limit) == reset_time # NoTime /\ remaining = limit

\* ... and `'remaining': limit_info['remaining']` reads the count.
StatusReadRemaining(t) ==
    /\ thr[t].pc = "status_remaining"
    /\ thr' = [thr EXCEPT
                ![t].pc = IF HalfReset(thr[t].tmp, Window.remaining, Window.limit)
                          THEN "status_torn" ELSE "status_read",
                ![t].tmp = 0]
    /\ UNCHANGED <<now, limiterVars, clientVars, window_permits, searches, runVars>>

\* `return status`
StatusReturn(t) ==
    /\ thr[t].pc \in {"status_torn", "status_read"}
    /\ thr' = [thr EXCEPT ![t].pc = "idle"]
    /\ UNCHANGED <<now, limiterVars, clientVars, window_permits, searches, runVars>>

NextStatus ==
    \/ \E t \in Threads : CheckEnter(t)
    \/ \E t \in Threads : CheckInitResetTime(t)
    \/ \E t \in Threads : CheckResetRemaining(t)
    \/ \E t \in Threads : CheckResetTime(t)
    \/ \E t \in Threads : CheckCharge(t)
    \/ \E t \in Threads : StatusReadResetTime(t)
    \/ \E t \in Threads : StatusReadRemaining(t)
    \/ \E t \in Threads : StatusReturn(t)
    \/ Tick

SpecStatus == InitLimiter /\ [][NextStatus]_vars

\* ---------------------------------------------------- sequences of records
\* (mutant of Take: the whole sequence)
Take_whole(seq, n) == seq

\* seq[:n]
Take(seq, n) == SubSeq(seq, 1, Min(Len(seq), n))

\* The lists of at most n elements of S, each element at most once.
SeqsUpTo(S, n) ==
    {seq \in UNION {[1..k -> S] : k \in 0..n} :
        \A i, j \in 1..Len(seq) : i # j => seq[i] # seq[j]}

RECURSIVE SelectSeq2(_, _)
SelectSeq2(seq, keep) ==
    IF seq = <<>> THEN <<>>
    ELSE (IF Head(seq) \in keep THEN <<Head(seq)>> ELSE <<>>) \o SelectSeq2(Tail(seq), keep)

Range(seq) == {seq[i] : i \in 1..Len(seq)}

\* list(dict.fromkeys(queries)): every text once, in the order of first occurrence
RECURSIVE Dedup(_)
Dedup(seq) ==
    IF seq = <<>> THEN <<>>
    ELSE LET rest == Dedup(SubSeq(seq, 1, Len(seq) - 1))
             last == seq[Len(seq)]
         IN  IF last \in Range(rest) THEN rest ELSE Append(rest, last)

\* hype_score of an event, relevance_score of an attendee
ScoreOf(item) ==
    IF "hype_score" \in DOMAIN item THEN item.hype_score ELSE item.relevance_score

\* (mutant of InsertByScore: an item goes before the items of equal score)
InsertByScore_tiesReversed(sorted, x) ==
    LET Lower(i) == ScoreOf(sorted[i]) <= ScoreOf(x)
    IN  IF \E i \in 1..Len(sorted) : Lower(i)
        THEN LET p == CHOOSE i \in 1..Len(sorted) : Lower(i) /\ \A j \in 1..(i - 1) : ~Lower(j)
             IN  SubSeq(sorted, 1, p - 1) \o <<x>> \o SubSeq(sorted, p, Len(sorted))
        ELSE Append(sorted, x)

\* list.sort(key=score, reverse=True) is stable: an item goes after every item
\* whose score is at least its own
InsertByScore(sorted, x) ==
    LET Lower(i) == ScoreOf(sorted[i]) < ScoreOf(x)
    IN  IF \E i \in 1..Len(sorted) : Lower(i)
        THEN LET p == CHOOSE i \in 1..Len(sorted) : Lower(i) /\ \A j \in 1..(i - 1) : ~Lower(j)
             IN  SubSeq(sorted, 1, p - 1) \o <<x>> \o SubSeq(sorted, p, Len(sorted))
        ELSE Append(sorted, x)

RECURSIVE SortByScore(_)
SortByScore(seq) ==
    IF seq = <<>> THEN <<>>
    ELSE InsertByScore(SortByScore(SubSeq(seq, 1, Len(seq) - 1)), seq[Len(seq)])

\* ------------------------------------------- SmartEventEngine: query plans
\* _build_date_specific_queries, the loop over the months; `raised` when
\* current.replace(month=...) raises ValueError
RECURSIVE MonthQueries(_, _, _)
MonthQueries(location, current, end_dt) ==
    IF ~DateLE(current, end_dt) THEN [raised |-> FALSE, queries |-> <<>>]
    ELSE LET month_name == MonthNames[current.m]
             year == ToStr(current.y)
             month_year == month_name \o " " \o year
             here == << "events " \o location \o " " \o month_year,
                        month_name \o " events " \o location \o " " \o year,
                        "upcoming events " \o location \o " " \o month_year,
                        "things to do " \o location \o " " \o month_name \o " " \o year >>
             next == IF current.m = 12
                     THEN [current EXCEPT !.y = current.y + 1, !.m = 1]
                     ELSE [current EXCEPT !.m = current.m + 1]
         IN  IF ~ValidDate(next) THEN [raised |-> TRUE, queries |-> here]
             ELSE LET rest == MonthQueries(location, next, end_dt)
                  IN  [raised |-> rest.raised, queries |-> here \o rest.queries]

RECURSIVE CategoryQueries(_, _, _)
CategoryQueries(location, categories, start_dt) ==
    IF categories = <<>> THEN <<>>
    ELSE LET category == Head(categories)
         IN  << category \o " events " \o location \o " " \o ToStr(start_dt.y),
                category \o " " \o location \o " " \o MonthNames[start_dt.m]
                    \o " " \o ToStr(start_dt.y) >>
             \o CategoryQueries(location, Tail(categories), start_dt)

\* _build_date_specific_queries: `queries` before the duplicates are removed
AllQueries(location, categories, start_dt, end_dt) ==
    LET months == MonthQueries(location, start_dt, end_dt)
        range == << "events " \o location \o " " \o MonthNames[start_dt.m] \o " "
                        \o TwoDigits(start_dt.d) \o " to " \o MonthNames[end_dt.m] \o " "
                        \o TwoDigits(end_dt.d) \o " " \o ToStr(end_dt.y),
                    location \o " events " \o ToStr(start_dt.y),
                    "upcoming events " \o location \o " " \o ToStr(start_dt.y) >>
    IN  months.queries \o range \o CategoryQueries(location, categories, start_dt)

_build_date_specific_queries(location, categories, start_dt, end_dt) ==
    [raised |-> MonthQueries(location, start_dt, end_dt).raised,
     queries |-> Dedup(AllQueries(location, categories, start_dt, end_dt))]

\* _fetch_unique_events (legacy engine): popular_queries
RECURSIVE PopularCategoryQueries(_, _)
PopularCategoryQueries(location, categories) ==
    IF categories = <<>> THEN <<>>
    ELSE LET category == Head(categories)
         IN  << "popular " \o category \o " events " \o location,
                "best " \o category \o " " \o location,
                "top " \o category \o " events " \o location >>
             \o PopularCategoryQueries(location, Tail(categories))

popular_queries(location, categories) ==
    << "popular events " \o location, "trending events " \o location,
       "best events " \o location, "top events " \o location,
       "must-see events " \o location, "major events " \o location,
       "featured events " \o location, "upcoming events " \o location,
       "this weekend " \o location, "events " \o location \o " 2024" >>
    \o PopularCategoryQueries(location, categories)

\* ------------------------------------------------- SmartEventEngine: a run
D(y, m, d) == [y |-> y, m |-> m, d |-> d]

Location == "Austin"

\* The records the search provider answers with.
EventData ==
    { [title |-> "Jazz Festival at Central Park",
       date |-> DictDate("Nov 15", "Sat, Nov 15, 8 ~ 11 PM"),
       address |-> "Moody Center, Austin, TX"],
      [title |-> "JAZZ festival!", date |-> TextDate("Sat, Nov 15"), address |-> ""],
      [title |-> "Events | Austin", date |-> MissingDate, address |-> ""],
      [title |-> "Tech Summit", date |-> TextDate("Dec 1"),
       address |-> "Center Hall Arena Stadium Garden, Austin"],
      [title |-> "Gala Concert", date |-> TextDate("Nov 15"), address |-> ""],
      [title |-> "Book Club", date |-> TextDate("Next week"), address |-> ""],
      [title |-> "Open Mic", date |-> TextDate(" "), address |-> ""] }

\* requests.get(...): a 200 response with its events_results (each record once;
\* two records may still give the same event key), another status, or an exception
SerpResponses ==
    {[status |-> st, events_results |-> <<>>] : st \in {"http_error", "raised"}}
    \cup {[status |-> "ok", events_results |-> r] : r \in SeqsUpTo(EventData, MaxResponse)}

\* The event of each record, by _parse_event_data_clean (TRUE) and by the legacy
\* _parse_event_data (FALSE).
EventOf == [c \in BOOLEAN |-> [r \in EventData |-> _parse_event_data(r, c)]]

\* `event and self._is_valid_event(event)`
Usable == [c \in BOOLEAN |->
            {r \in EventData : ~NoTitle(r.title) /\ _is_valid_event(EventOf[c][r])}]

\* The clocks a run reads (datetime.now()): the day, and whether midnight is past.
Clocks ==
    { [today |-> D(2024, 10, 1), after_midnight |-> TRUE],
      [today |-> D(2024, 11, 15), after_midnight |-> TRUE],
      [today |-> D(2024, 11, 15), after_midnight |-> FALSE] }

\* Every event the records give.
Events == {EventOf[c][r] : c \in BOOLEAN, r \in EventData}

\* _parse_serpapi_date(event.exact_date) of each event, at each clock
StartOf == [clock \in Clocks |-> [event \in Events |->
                _parse_serpapi_date(event.exact_date, clock.today, clock.after_midnight)]]

\* _create_event_key(event) of each event, where it does not raise
KeyOf == [event \in Events |->
            IF KeyRaises(event) THEN "" ELSE _create_event_key(event)]

\* The events _create_event_key raises on.
Keyless == {event \in Events : KeyRaises(event)}

\* _calculate_hype_score(event) of each event
HypeOf == [event \in Events |-> _calculate_hype_score(event)]

RECURSIVE MapEvents(_, _)
MapEvents(records, c) ==
    IF records = <<>> THEN <<>>
    ELSE <<EventOf[c][Head(records)]>> \o MapEvents(Tail(records), c)

\* _fetch_serpapi_events: the valid events among the first `limit` records
_fetch_serpapi_events(response, limit, c) ==
    IF response.status = "ok"
    THEN MapEvents(SelectSeq2(Take(response.events_results, limit), Usable[c]), c)
    ELSE <<>>

\* (mutant of NextQuery: the loop stays on its query)
NextQuery_again(i) == i

\* `for query in queries:`, `for query_type, query in exact_queries[:3]:` the
\* loops take the queries of a plan one after the other, each once.
NextQuery(i) == i + 1

\* (mutant of NotSeen: nothing counts as seen)
NotSeen_never(key, seen_keys) == TRUE

\* `event_key not in seen_events`, `attendee.username not in seen_usernames`
NotSeen(key, seen_keys) == key \notin seen_keys

\* (mutant of InRange: the test against end_dt is dropped)
InRange_noUpper(event_start_dt, start_dt, end_dt) ==
    /\ event_start_dt # NoDate
    /\ DateLE(start_dt, event_start_dt)

\* `event_start_dt and start_dt <= event_start_dt <= end_dt`
InRange(event_start_dt, start_dt, end_dt) ==
    /\ event_start_dt # NoDate
    /\ DateLE(start_dt, event_start_dt)
    /\ DateLE(event_start_dt, end_dt)

\* _fetch_events_with_date_filter: the loop over the events of one query
RECURSIVE MergeDated(_, _, _)
MergeDated(events, acc, r) ==
    IF events = <<>> THEN acc
    ELSE LET event == Head(events)
             event_start_dt == StartOf[[today |-> r.today,
                                        after_midnight |-> r.after_midnight]][event]
             event_key == KeyOf[event]
         IN  MergeDated(Tail(events),
                IF InRange(event_start_dt, r.start_dt, r.end_dt)
                        /\ NotSeen(event_key, acc.seen)
                THEN [acc EXCEPT !.all = Append(acc.all, event),
                                 !.seen = acc.seen \cup {event_key}]
                ELSE acc,
                r)

\* _fetch_unique_events (legacy engine): the loop over the events of one query;
\* `raised` when _create_event_key raises
RECURSIVE MergeLegacy(_, _)
MergeLegacy(events, acc) ==
    IF events = <<>> \/ acc.raised THEN acc
    ELSE LET event == Head(events)
             event_key == KeyOf[event]
         IN  IF event \in Keyless THEN [acc EXCEPT !.raised = TRUE]
             ELSE MergeLegacy(Tail(events),
                    IF NotSeen(event_key, acc.seen)
                    THEN [acc EXCEPT !.all = Append(acc.all, event),
                                     !.seen = acc.seen \cup {event_key}]
                    ELSE acc)

\* event.hype_score = self._calculate_hype_score(event), for each event
Scored(events) ==
    [i \in 1..Len(events) |-> [events[i] EXCEPT !.hype_score = HypeOf[events[i]]]]

\* _score_events_by_hype
_score_events_by_hype(events) == SortByScore(Scored(events))

\* (mutant of CollectTarget: ten times max_results)
CollectTarget_tenfold(k, max_results) == max_results * 10

\* The number of events at which the loop over the queries stops:
\* max_results * 2 in _fetch_events_with_date_filter, the target_count
\* max_results * 5 of the legacy _fetch_unique_events
CollectTarget(k, max_results) ==
    IF k = "dated" THEN max_results * 2 ELSE max_results * 5

\* discover_events up to the first query: the key, the date range, the queries
DiscoverEventsStart ==
    /\ pc = "start"
    /\ kind \in {"dated", "legacy"}
    /\ LET plan == IF kind = "dated"
                   THEN _build_date_specific_queries(Location, req.categories,
                                                     req.start_dt, req.end_dt)
                   ELSE [raised |-> FALSE,
                         queries |-> popular_queries(Location, req.categories)]
           returns_empty ==
                \/ ~req.serp_api_key
                \/ kind = "dated" /\ (req.start_dt = NoDate \/ req.end_dt = NoDate)
                \/ plan.raised
       IN  IF returns_empty
           THEN /\ pc' = "done"
                /\ UNCHANGED queries
           ELSE /\ pc' = "collect"
                /\ queries' = plan.queries
    /\ UNCHANGED <<now, limiterVars, clientVars, sharedVars, kind, req, qi, all_items,
                   seen, result, issued, last_issue_count, ungated, offered,
                   firsts>>

\* The loop over the queries goes on.
MoreEventQueries ==
    /\ qi <= Len(queries)
    /\ ~(Len(all_items) >= CollectTarget(kind, req.max_results))

\* The event passes the date filter of the run (the legacy engine has none).
Passes(event, r) ==
    kind = "legacy"
    \/ InRange(StartOf[[today |-> r.today, after_midnight |-> r.after_midnight]][event],
               r.start_dt, r.end_dt)

\* History: the events met so far, in the order of the queries and of the
\* responses, that pass the date filter and have the key of no event met before.
RECURSIVE FirstEncountered(_, _, _)
FirstEncountered(events, earlier, r) ==
    IF events = <<>> THEN earlier
    ELSE LET event == Head(events)
             met == \E x \in Range(earlier) : KeyOf[x] = KeyOf[event]
         IN  FirstEncountered(Tail(events),
                IF Passes(event, r) /\ ~met THEN Append(earlier, event) ELSE earlier,
                r)

\* One turn of the loop over the queries: _fetch_serpapi_events and the merge.
FetchEvents ==
    /\ pc = "collect"
    /\ kind \in {"dated", "legacy"}
    /\ MoreEventQueries
    /\ \E response \in SerpResponses :
        LET c == kind = "dated"
            limit == IF c THEN 10
                     ELSE 2 * (CollectTarget(kind, req.max_results) - Len(all_items))
            events == _fetch_serpapi_events(response, limit, c)
            acc0 == [all |-> all_items, seen |-> seen, raised |-> FALSE]
            acc == IF c THEN MergeDated(events, acc0, req) ELSE MergeLegacy(events, acc0)
        IN  /\ issued' = issued + 1
            /\ last_issue_count' = Len(all_items)
            /\ ungated' = ungated + 1
            /\ offered' = offered \cup Range(events)
            /\ IF acc.raised
               THEN /\ pc' = "done"
                    /\ UNCHANGED <<all_items, seen, qi, firsts>>
               ELSE /\ pc' = pc
                    /\ all_items' = acc.all
                    /\ seen' = acc.seen
                    /\ qi' = NextQuery(qi)
                    /\ firsts' = FirstEncountered(events, firsts, req)
    /\ UNCHANGED <<now, limiterVars, clientVars, sharedVars, kind, req, queries, result>>

\* discover_events after the loop: the scores, the order, the first max_results
FinishEvents ==
    /\ pc = "collect"
    /\ kind \in {"dated", "legacy"}
    /\ ~MoreEventQueries
    /\ LET scored_events == _score_events_by_hype(all_items)
       IN  /\ all_items' = Scored(all_items)
           /\ result' = Take(scored_events, req.max_results)
    /\ pc' = "done"
    /\ UNCHANGED <<now, limiterVars, clientVars, sharedVars, kind, req, queries, qi, seen,
                   issued, last_issue_count, ungated, offered,
                   firsts>>

\* ---------------------------------------------- SmartAttendeeEngine: a run
\* self.relevance_threshold = 0.05; scores are counted in hundredths
relevance_threshold == 5

StopWords == {"the", "and", "or", "but", "in", "on", "at", "to", "for", "of", "with",
              "by", "a", "an"}

RECURSIVE LowerAll(_)
LowerAll(words) ==
    IF words = <<>> THEN <<>> ELSE <<ToLower(Head(words))>> \o LowerAll(Tail(words))

\* _extract_keywords: the words kept
KeptWords(event_name) ==
    LET words == Split(SubNonWord(event_name, " "))
    IN  LowerAll(SelectSeq(words, LAMBDA word : ToLower(word) \notin StopWords
                                                /\ Len(word) > 2))

\* _extract_keywords raises IndexError at event_name.split()[0]
KeywordsRaise(event_name) == KeptWords(event_name) = <<>> /\ Split(event_name) = <<>>

\* _extract_keywords, where it does not raise
_extract_keywords(event_name) ==
    IF KeptWords(event_name) # <<>> THEN KeptWords(event_name)
    ELSE <<ToLower(Head(Split(event_name)))>>

\* SmartAttendeeEngine._clean_event_name
_clean_search_name(event_name) ==
    LET cleaned == Strip(CollapseSpaces(SubNonWord(event_name, " ")))
    IN  IF event_name = "" \/ cleaned = "" THEN "event" ELSE cleaned

Quote == "\""

\* _generate_exact_queries
_generate_exact_queries(event_name, event_date) ==
    LET clean_name == Quote \o _clean_search_name(event_name) \o Quote
    IN  <<clean_name, clean_name \o " event", clean_name \o " concert">>
        \o (IF event_date # "" THEN <<clean_name \o " " \o event_date>> ELSE <<>>)

\* _generate_smart_keyword_queries
_generate_smart_keyword_queries(event_name) ==
    LET keywords == _extract_keywords(event_name)
    IN  (IF Len(keywords) >= 2
         THEN <<Quote \o keywords[1] \o " " \o keywords[2] \o Quote>> ELSE <<>>)
        \o <<Quote \o keywords[1] \o Quote>>

\* _generate_broad_queries
_generate_broad_queries(event_name) ==
    LET keywords == _extract_keywords(event_name)
    IN  <<keywords[1],
          keywords[1] \o " OR " \o (IF Len(keywords) > 1 THEN keywords[2] ELSE keywords[1])>>

EngagementPhrases == {"attending", "going to", "see you at", "excited for", "can't wait for"}
EventWords == {"event", "concert", "festival", "show", "party"}

\* _calculate_relevance_score_fast, in hundredths
_calculate_relevance_score_fast(tweet_text, event_name) ==
    LET text_lower == ToLower(tweet_text)
        event_lower == ToLower(event_name)
        keywords == _extract_keywords(event_name)
        matched_keywords ==
            Cardinality({i \in 1..Len(keywords) : Contains(text_lower, keywords[i])})
    IN  Min(100,
            (IF Contains(text_lower, event_lower) THEN 60 ELSE 0)
            + Min(30, matched_keywords * 10)
            + (IF \E phrase \in EngagementPhrases : Contains(text_lower, phrase)
               THEN 10 ELSE 0)
            + (IF \E word \in EventWords : Contains(text_lower, word) THEN 5 ELSE 0))

\* The tweets and the users the search answers with; the author of the fifth tweet
\* is not among the users.
Tweets ==
    { [id |-> 1, author_id |-> 1, text |-> "Going to Jazz Festival tonight"],
      [id |-> 2, author_id |-> 2, text |-> "jazz is great"],
      [id |-> 3, author_id |-> 1, text |-> "nice show"],
      [id |-> 4, author_id |-> 3, text |-> "hello"],
      [id |-> 5, author_id |-> 9, text |-> "Jazz Festival"],
      [id |-> 6, author_id |-> 4, text |-> "love jazz"] }

Users == {[id |-> i, username |-> "user" \o ToStr(i)] : i \in 1..4}

EventNames == {"Jazz Festival", "U2", "jazz", ""}

\* client_v2.search_recent_tweets(...): it raises, or returns the tweets (data) and
\* the users (includes)
TweetResponses ==
    {[status |-> "raised", data |-> <<>>, users |-> {}],
     [status |-> "ok", data |-> <<CHOOSE t \in Tweets : t.id = 1>>, users |-> {}]}
    \cup {[status |-> "ok", data |-> d, users |-> Users] : d \in SeqsUpTo(Tweets, MaxResponse)}

\* The relevance of each tweet to each event name.
RelevanceOf == [event_name \in EventNames |-> [tweet \in Tweets |->
                    IF KeywordsRaise(event_name) THEN 0
                    ELSE _calculate_relevance_score_fast(tweet.text, event_name)]]

NamesRaising == {event_name \in EventNames : KeywordsRaise(event_name)}

\* users_dict.get(tweet.author_id)
HasUser(tweet, users) == \E user \in users : user.id = tweet.author_id
UserOf(tweet, users) == CHOOSE user \in users : user.id = tweet.author_id

\* A filter that lets every tweet with a known author through.
Relevant_all(relevance_score) == relevance_score >= 0

\* `relevance_score >= self.relevance_threshold`
Relevant(relevance_score) == relevance_score >= relevance_threshold

\* _process_tweets_fast: the loop over tweets.data; `raised` when the score raises
RECURSIVE ProcessTweets(_, _, _)
ProcessTweets(data, users, event_name) ==
    IF data = <<>> THEN [raised |-> FALSE, attendees |-> <<>>]
    ELSE LET tweet == Head(data)
             rest == ProcessTweets(Tail(data), users, event_name)
             relevance_score == RelevanceOf[event_name][tweet]
         IN  IF ~HasUser(tweet, users) THEN rest
             ELSE IF event_name \in NamesRaising
             THEN [raised |-> TRUE, attendees |-> <<>>]
             ELSE IF Relevant(relevance_score)
             THEN [rest EXCEPT !.attendees =
                        <<[username |-> "@" \o UserOf(tweet, users).username,
                           post_content |-> tweet.text,
                           relevance_score |-> relevance_score]>> \o @]
             ELSE rest

\* _search_and_process after the search: None, no data and no users give no attendee
_search_and_process(response, event_name) ==
    IF response.status # "ok" \/ response.data = <<>> \/ response.users = {}
    THEN [raised |-> FALSE, attendees |-> <<>>]
    ELSE ProcessTweets(response.data, response.users, event_name)

\* `len(all_attendees) < max_results`
RoomLeft(all_attendees, max_results) == Len(all_attendees) < max_results

\* _guaranteed_find_attendees: the loop over the attendees of one search
RECURSIVE MergeAttendees(_, _, _)
MergeAttendees(attendees, acc, max_results) ==
    IF attendees = <<>> THEN acc
    ELSE LET attendee == Head(attendees)
         IN  MergeAttendees(Tail(attendees),
                IF NotSeen(attendee.username, acc.seen) /\ RoomLeft(acc.all, max_results)
                THEN [acc EXCEPT !.all = Append(acc.all, attendee),
                                 !.seen = acc.seen \cup {attendee.username}]
                ELSE acc,
                max_results)

\* The searches of the three phases, in order: exact_queries[:3],
\* keyword_queries[:3], broad_queries[:2]; only the first phase when
\* _extract_keywords raises.
\* `exact_queries[:3]`
ExactPhase(event_name, event_date) ==
    Take(_generate_exact_queries(event_name, event_date), 3)

\* `keyword_queries[:3]`
KeywordPhase(event_name) ==
    IF KeywordsRaise(event_name) THEN <<>>
    ELSE Take(_generate_smart_keyword_queries(event_name), 3)

\* `broad_queries[:2]`
BroadPhase(event_name) ==
    IF KeywordsRaise(event_name) THEN <<>>
    ELSE Take(_generate_broad_queries(event_name), 2)

AttendeeQueries(event_name, event_date) ==
    ExactPhase(event_name, event_date) \o KeywordPhase(event_name)
        \o BroadPhase(event_name)

\* TwitterClient.setup_clients: client_v2 is assigned before get_me() tests the
\* credentials, and stays assigned when the test raises.
setup_clients ==
    /\ kind = "attendees"
    /\ pc = "start"
    /\ client_v2' = "Client"
    /\ pc' = "ready"
    /\ UNCHANGED <<now, limiterVars, rate_limit_remaining, last_reset_time,
                   total_searches_used, sharedVars, kind, req, queries, qi, all_items,
                   seen, result, issued, last_issue_count, ungated, offered,
                   firsts>>

\* is_operational
is_operational == client_v2 # "None"

\* discover_attendees up to the first search
DiscoverAttendeesStart ==
    /\ kind = "attendees"
    /\ pc = "ready"
    /\ IF ~is_operational
       THEN /\ pc' = "done"
            /\ UNCHANGED queries
       ELSE /\ pc' = "collect"
            /\ queries' = AttendeeQueries(req.event_name, req.event_date)
    /\ UNCHANGED <<now, limiterVars, clientVars, sharedVars, kind, req, qi, all_items,
                   seen, result, issued, last_issue_count, ungated, offered,
                   firsts>>

\* (mutant of TargetReached: the loops never break)
TargetReached_never(all_attendees, max_results) == FALSE

\* `if len(all_attendees) >= max_results: break`, and the tests
\* `if len(all_attendees) < max_results:` before the second and the third phase
TargetReached(all_attendees, max_results) == Len(all_attendees) >= max_results

\* The loops over the searches go on.
MoreSearches ==
    /\ qi <= Len(queries)
    /\ ~TargetReached(all_items, req.max_results)

\* One turn of a loop over the searches: search_recent_tweets_safe by the only
\* caller of the client, _process_tweets_fast and the merge.
SearchAttendees ==
    /\ kind = "attendees"
    /\ pc = "collect"
    /\ MoreSearches
    /\ LET remaining == IF ClientWindowOver THEN ClientLimit ELSE rate_limit_remaining
           permits == IF ClientWindowOver THEN 0 ELSE window_permits
           used == IF ClientWindowOver THEN 0 ELSE total_searches_used
           allowed == QuotaLeft(remaining)
       IN  /\ last_reset_time' = IF ClientWindowOver THEN now ELSE last_reset_time
           /\ window_permits' = IF allowed THEN permits + 1 ELSE permits
           /\ issued' = IF allowed THEN issued + 1 ELSE issued
           /\ last_issue_count' = IF allowed THEN Len(all_items) ELSE last_issue_count
           /\ \E response \in TweetResponses :
                LET tweets == IF allowed THEN response
                              ELSE [status |-> "denied", data |-> <<>>, users |-> {}]
                    found == _search_and_process(tweets, req.event_name)
                    acc == MergeAttendees(found.attendees,
                                          [all |-> all_items, seen |-> seen],
                                          req.max_results)
                IN  \* without valid credentials the search raises; a denied search
                    \* has no response
                    /\ ~(allowed /\ req.credentials) => response.status = "raised"
                    /\ rate_limit_remaining' =
                            IF tweets.status = "ok" THEN remaining - 1 ELSE remaining
                    /\ total_searches_used' =
                            IF tweets.status = "ok" THEN used + 1 ELSE used
                    /\ offered' = offered \cup
                            {[username |-> a.username, relevance_score |-> a.relevance_score] :
                                a \in Range(found.attendees)}
                    /\ IF found.raised
                       THEN /\ pc' = "done"
                            /\ UNCHANGED <<all_items, seen, qi>>
                       ELSE /\ pc' = pc
                            /\ all_items' = acc.all
                            /\ seen' = acc.seen
                            /\ qi' = NextQuery(qi)
    /\ UNCHANGED <<now, limiterVars, client_v2, thr, searches, kind, req, queries,
                   result, ungated, firsts>>

\* After the loops: the sort by relevance and relevant_attendees[:max_results];
\* an exception raised by the keyword queries gives the empty list.
FinishAttendees ==
    /\ kind = "attendees"
    /\ pc = "collect"
    /\ ~MoreSearches
    /\ result' = IF req.event_name \in NamesRaising /\ Len(all_items) < req.max_results
                 THEN <<>>
                 ELSE Take(SortByScore(all_items), req.max_results)
    /\ pc' = "done"
    /\ UNCHANGED <<now, limiterVars, clientVars, sharedVars, kind, req, queries, qi,
                   all_items, seen, issued, last_issue_count, ungated, offered,
                   firsts>>

\* The arguments of discover_events, with the clock the run reads: a month ahead
\* of the clock, a range that starts and ends on the dates of records, a range
\* over two months, a range around the clock (after and at midnight), a range
\* that starts on the 31st, a start date that does not parse.
Scenarios ==
    { [start_dt |-> D(2024, 11, 15), end_dt |-> D(2024, 12, 1), categories |-> <<>>,
       today |-> D(2024, 10, 1), after_midnight |-> TRUE] } \cup
    { [start_dt |-> D(2024, 11, 1), end_dt |-> D(2024, 11, 30), categories |-> <<>>,
       today |-> D(2024, 10, 1), after_midnight |-> TRUE],
      [start_dt |-> D(2024, 11, 1), end_dt |-> D(2024, 11, 30),
       categories |-> <<"music", "music">>,
       today |-> D(2024, 10, 1), after_midnight |-> TRUE],
      [start_dt |-> D(2024, 11, 20), end_dt |-> D(2024, 12, 10), categories |-> <<>>,
       today |-> D(2024, 11, 15), after_midnight |-> TRUE],
      [start_dt |-> D(2024, 11, 1), end_dt |-> D(2024, 11, 30), categories |-> <<>>,
       today |-> D(2024, 11, 15), after_midnight |-> TRUE],
      [start_dt |-> D(2024, 11, 1), end_dt |-> D(2024, 11, 30), categories |-> <<>>,
       today |-> D(2024, 11, 15), after_midnight |-> FALSE],
      [start_dt |-> D(2024, 10, 31), end_dt |-> D(2024, 11, 30), categories |-> <<>>,
       today |-> D(2024, 10, 1), after_midnight |-> TRUE],
      [start_dt |-> NoDate, end_dt |-> D(2024, 11, 30), categories |-> <<>>,
       today |-> D(2024, 10, 1), after_midnight |-> TRUE] }

EventRequests ==
    { [max_results |-> n, serp_api_key |-> key, categories |-> sc.categories,
       start_dt |-> sc.start_dt, end_dt |-> sc.end_dt,
       today |-> sc.today, after_midnight |-> sc.after_midnight] :
        n \in 0..MaxResults, key \in BOOLEAN, sc \in Scenarios }

NewRun ==
    /\ pc = "start"
    /\ queries = <<>>
    /\ qi = 1
    /\ all_items = <<>>
    /\ seen = {}
    /\ result = <<>>
    /\ issued = 0
    /\ last_issue_count = 0
    /\ ungated = 0
    /\ offered = {}
    /\ firsts = <<>>

\* The arguments of discover_attendees, and whether the Twitter credentials of
\* the environment are present and accepted.
AttendeeRequests ==
    { [max_results |-> n, event_name |-> name.event_name, event_date |-> name.event_date,
       credentials |-> credentials] :
        n \in 0..MaxResults,
        name \in { [event_name |-> "Jazz Festival", event_date |-> "Nov 15"],
                   [event_name |-> "U2", event_date |-> ""],
                   [event_name |-> "jazz", event_date |-> ""],
                   [event_name |-> "", event_date |-> ""] },
        credentials \in BOOLEAN }

\* An event run: the engine holds no client.
InitEvents ==
    /\ now = 0
    /\ client_v2 = "None"
    /\ NewClient
    /\ kind \in {"dated", "legacy"}
    /\ req \in EventRequests
    \* the legacy engine takes no dates and reads no clock
    /\ kind = "legacy" =>
            /\ req.start_dt = D(2024, 11, 1) /\ req.end_dt = D(2024, 11, 30)
            /\ req.today = D(2024, 10, 1)
            /\ req.categories = <<>>

\* An attendee run: the client of the engine is new, or has been used by earlier
\* runs in a window that is still open or is over.
InitAttendees ==
    /\ kind = "attendees"
    /\ req \in AttendeeRequests
    /\ client_v2 = "None"
    /\ \E left \in {ClientLimit} \cup 0..MaxLeft, t \in {0, ClientWindow} :
            /\ now = t
            /\ rate_limit_remaining = left
            /\ last_reset_time = 0
            /\ total_searches_used = ClientLimit - left
            /\ window_permits = ClientLimit - left
            /\ t = ClientWindow => left = 0

Init ==
    /\ NewLimiter
    /\ NoCallers
    /\ NewRun
    /\ InitEvents \/ InitAttendees

Next ==
    \/ DiscoverEventsStart
    \/ FetchEvents
    \/ FinishEvents
    \/ setup_clients
    \/ DiscoverAttendeesStart
    \/ SearchAttendees
    \/ FinishAttendees

Spec == Init /\ [][Next]_vars

\* -------------------------------------------- the two gates, side by side
\* The limiter after earlier acquisitions at time 0 that left `left` permits on
\* the search and the retweet endpoint.
UsedLimiter(left) ==
    /\ rate_limits =
            [e \in Endpoints |->
                IF e = "post_tweet"
                THEN setup_advanced_limits[e]
                ELSE [setup_advanced_limits[e] EXCEPT
                        !.remaining = left,
                        !.reset_time = setup_advanced_limits[e].window_minutes]]
    /\ acq = [e \in Endpoints |->
                IF e = "post_tweet"
                THEN [n |-> 0, last |-> "none", reset |-> FALSE, at |-> 0, wins |-> 0,
                      granted |-> 0]
                ELSE [n |-> setup_advanced_limits[e].limit - left, last |-> "allowed",
                      reset |-> FALSE, at |-> 0, wins |-> 0,
                      granted |-> setup_advanced_limits[e].limit - left]]

\* A process that holds a limiter and an attendee engine, both used before:
\* an attendee run goes on while other callers acquire permits of the limiter.
InitFrame ==
    /\ UsedLimiter(1)
    /\ NoCallers
    /\ NewRun
    /\ InitAttendees
    /\ now = 0
    /\ req.credentials
    /\ req.event_name = "Jazz Festival"
    /\ rate_limit_remaining = 1

NextFrame ==
    \/ Acquire
    \/ setup_clients
    \/ DiscoverAttendeesStart
    \/ SearchAttendees
    \/ FinishAttendees

SpecFrame == InitFrame /\ [][NextFrame]_vars

\* --------------------------------------------------------------------- C1
Discovery == {"dated", "legacy", "attendees"}

\* C1: the list a run of discover_events or discover_attendees returns is no
\* longer than max_results, and no longer than the number of distinct valid
\* records the provider returned to the queries of the run.
C1_ResultBounded ==
    (kind \in Discovery /\ pc = "done") =>
        /\ Len(result) <= req.max_results
        /\ Len(result) <= Cardinality(offered)

\* A run that collected more items than it was asked for, and returned max_results.
C1_Witness ==
    /\ kind \in Discovery /\ pc = "done"
    /\ req.max_results >= 1
    /\ Len(result) = req.max_results
    /\ Len(all_items) > Len(result)

\* --------------------------------------------------------------------- C2
\* C2: when several runs share one client, under every interleaving of their
\* search calls the searches permitted within one window never exceed the
\* capacity 60 and the remaining count never goes below 0.
C2_QuotaRespected ==
    /\ window_permits <= 60
    /\ rate_limit_remaining >= 0

\* --------------------------------------------------------------------- C3
\* C3: every call to a provider made during discovery, for events and for
\* attendees alike, comes after a rate-limit acquisition that returned allowed;
\* no provider call is made without one.
C3_EveryCallGated == ungated = 0

\* --------------------------------------------------------------------- C4
\* C4: with capacity 60 and a 15-minute window, the first 60 acquisitions of
\* 'search_recent' inside a window are allowed and the 61st is denied; the
\* first acquisition made after the reset instant has passed is allowed,
\* leaves remaining = 59 and sets the reset instant to its own time plus 15.
C4_SixtyPerWindow ==
    LET h == acq["search_recent"]
        info == rate_limits["search_recent"]
    IN  /\ h.n \in 1..60 => h.last = "allowed"
        /\ h.n = 61 => h.last = "denied"
        /\ h.reset => /\ h.last = "allowed"
                      /\ info.remaining = 59
                      /\ info.reset_time = h.at + 15

\* A window that began with a reset has been exhausted: its 61st attempt is denied.
C4_Witness ==
    LET h == acq["search_recent"]
    IN  h.wins >= 1 /\ h.n = 61 /\ h.last = "denied"

\* --------------------------------------------------------------------- C5
EventRun == kind \in {"dated", "legacy"}

C6_ShortCircuit ==
    (kind = "attendees" /\ issued >= 1) => last_issue_count < req.max_results

\* The first search of the first phase yields max_results attendees, and the run
\* ends with that one search issued.
C6_Witness ==
    /\ kind = "attendees" /\ pc = "done"
    /\ req.max_results >= 1
    /\ Len(result) = req.max_results
    /\ issued = 1
    /\ Len(queries) = 7

\* --------------------------------------------------------------------- C7
Usernames(items) == {items[i].username : i \in 1..Len(items)}

\* C7: the result of an attendee run holds the highest-relevance attendees among
\* those that passed the threshold in the responses of the run: no attendee left
\* out has a strictly higher relevance score than one in the result.
C7_TopRelevance ==
    (kind = "attendees" /\ pc = "done") =>
        \A o \in offered : \A i \in 1..Len(result) :
            o.username \notin Usernames(result) =>
                o.relevance_score <= result[i].relevance_score

\* --------------------------------------------------------------------- C8
\* C8: without credentials (no SERP_API_KEY for events, Twitter credentials absent
\* or rejected for attendees) the run returns the empty list and issues no
\* provider query.
C8_NoCredentialsNoQuery ==
    (\/ EventRun /\ ~req.serp_api_key
     \/ kind = "attendees" /\ ~req.credentials) =>
        /\ issued = 0
        /\ result = <<>>

\* --------------------------------------------------------------------- C9
\* The deduplication key of a returned item.
DedupKey(item) ==
    IF kind = "attendees" THEN item.username ELSE _create_event_key(item)

\* C9: any two distinct items of a returned list have different deduplication
\* keys: the keys of _create_event_key for events, the usernames for attendees.
C9_KeysDistinct ==
    (kind \in Discovery /\ pc = "done") =>
        \A i, j \in 1..Len(result) : i # j => DedupKey(result[i]) # DedupKey(result[j])

\* An event run returns two events after the provider returned two records of
\* one key.
C9_Witness ==
    /\ EventRun /\ pc = "done"
    /\ Len(result) = 2
    /\ \E a, b \in offered : a # b /\ KeyOf[a] = KeyOf[b]

\* -------------------------------------------------------------------- C10
\* The place of a returned item in the order of discovery.
Discovered(item) == CHOOSE i \in 1..Len(all_items) : all_items[i] = item

\* C10: the returned list is sorted by score, highest first (hype_score for
\* events, relevance_score for attendees), and items of equal score are in the
\* order in which they were first discovered.
C10_SortedStable ==
    (kind \in Discovery /\ pc = "done") =>
        \A i, j \in 1..Len(result) : i < j =>
            /\ ScoreOf(result[i]) >= ScoreOf(result[j])
            /\ ScoreOf(result[i]) = ScoreOf(result[j]) =>
                    Discovered(result[i]) < Discovered(result[j])

\* A run returns two items of equal score, discovered after an item of another
\* score.
C10_Witness ==
    /\ kind \in Discovery /\ pc = "done"
    /\ Len(result) = 2
    /\ ScoreOf(result[1]) = ScoreOf(result[2])
    /\ Len(all_items) >= 3

\* -------------------------------------------------------------------- C11
\* The instant _parse_serpapi_date gives for the date text of an event, at the
\* clock of the run.
ParsedDate(event) == _parse_serpapi_date(event.exact_date, req.today, req.after_midnight)

\* C11: every event the date-filtering engine returns has a date text that
\* parses, and the parsed date d satisfies start <= d <= end, both ends
\* included; a record whose date text does not parse is never returned.
C11_InRange ==
    (kind = "dated" /\ pc = "done") =>
        \A i \in 1..Len(result) :
            /\ ParsedDate(result[i]) # NoDate
            /\ DateLE(req.start_dt, ParsedDate(result[i]))
            /\ DateLE(ParsedDate(result[i]), req.end_dt)

\* A run returns an event dated on the first day of the range and one dated on
\* the last, after the provider offered a record with a date text that does not
\* parse.
C11_Witness ==
    /\ kind = "dated" /\ pc = "done"
    /\ \E i, j \in 1..Len(result) :
            /\ ParsedDate(result[i]) = req.start_dt
            /\ ParsedDate(result[j]) = req.end_dt
    /\ \E event \in offered : ParsedDate(event) = NoDate

\* -------------------------------------------------------------------- C12
\* The event is among the returned ones.
Returned(event) ==
    \E i \in 1..Len(result) :
        /\ result[i].event_name = event.event_name
        /\ result[i].exact_date = event.exact_date

\* C12: with start = 2024-11-01 and end = 2024-11-30, at whatever date the run
\* executes, a valid record dated "Nov 15" is in the result (when max_results
\* leaves room for every event collected), a record dated "Dec 1" is not, and a
\* record with a date text that does not parse is not.
C12_NovemberExample ==
    (/\ kind = "dated" /\ pc = "done"
     /\ req.start_dt = D(2024, 11, 1) /\ req.end_dt = D(2024, 11, 30)) =>
        \A event \in offered :
            /\ (event.exact_date = "Nov 15" /\ Len(all_items) <= req.max_results)
                    => Returned(event)
            /\ event.exact_date = "Dec 1" => ~Returned(event)
            /\ event.exact_date = "Next week" => ~Returned(event)

\* -------------------------------------------------------------------- C13
\* The count of collected items at which the run stops issuing queries.
StopCount ==
    IF kind = "attendees" THEN req.max_results ELSE CollectTarget(kind, req.max_results)

\* C13: whatever mix of quota denials, transport errors, non-success statuses,
\* unparseable dates and invalid records the queries of a run meet, the run goes
\* through its plan (to the end, or until it has collected enough) and returns
\* valid items it obtained: the empty list only when it obtained none.  (An
\* event name without a word is an argument of the caller, not such an error.)
C13_ErrorsTolerated ==
    (/\ kind \in Discovery /\ pc = "done" /\ queries # <<>>
     /\ kind = "attendees" => req.event_name \notin NamesRaising) =>
        /\ qi > Len(queries) \/ Len(all_items) >= StopCount
        /\ (all_items # <<>> /\ req.max_results > 0) => result # <<>>

\* -------------------------------------------------------------------- C14
\* A step in which an acquisition of the limiter was denied on endpoint e.
LimiterDenied(e) == acq'[e] # acq[e] /\ acq'[e].last = "denied"

\* A step in which the client denied the search of an attendee run: the run
\* moved to its next query and no search reached the provider.
ClientDenied ==
    /\ kind = "attendees" /\ pc = "collect"
    /\ qi' = qi + 1
    /\ issued' = issued

\* C14: a denied acquisition changes no state.  A call of check_rate_limit that
\* returns false leaves the remaining count and the reset time of every
\* endpoint as they were; a search denied by the client reaches no provider,
\* finds nothing and leaves rate_limit_remaining and total_searches_used (and
\* the start of the window) as they were.
C14_DeniedChangesNothing ==
    [][ /\ \A e \in Endpoints : LimiterDenied(e) => rate_limits' = rate_limits
        /\ ClientDenied =>
                /\ rate_limit_remaining' = rate_limit_remaining
                /\ total_searches_used' = total_searches_used
                /\ last_reset_time' = last_reset_time
                /\ all_items' = all_items /\ offered' = offered ]_vars

\* A run met a denied search and the limiter denied an acquisition.
C14_Witness ==
    /\ kind = "attendees" /\ pc = "done"
    /\ qi = Len(queries) + 1 /\ issued >= 1 /\ issued < Len(queries)
    /\ rate_limit_remaining = 0
    /\ \E e \in Endpoints : acq[e].last = "denied" /\ rate_limits[e].remaining = 0

\* -------------------------------------------------------------------- C15
\* C15: every read and every write of a window by check_rate_limit and by
\* get_limits_status happens while the lock of the limiter is held: while a
\* thread reads the status no other thread is inside check_rate_limit, and no
\* status read returns a window caught between the statements of a reset.
C15_StatusUnderLock ==
    \A t \in Threads :
        /\ thr[t].pc = "status_remaining" =>
                \A u \in Threads \ {t} : thr[u].pc \notin CheckSteps
        /\ thr[t].pc # "status_torn"

\* -------------------------------------------------------------------- C16
\* The item was built from a record of a response of this run.
FromProvider(item) ==
    IF kind = "attendees"
    THEN [username |-> item.username, relevance_score |-> item.relevance_score] \in offered
    ELSE \E event \in offered : item = [event EXCEPT !.hype_score = HypeOf[event]]

\* The collected item is in the result.
Kept(item) ==
    IF kind = "attendees"
    THEN item.username \in Usernames(result)
    ELSE Returned(item)

\* C16: every returned item is derived from a record that the provider returned
\* to a query of this run, and a run that collected fewer than max_results
\* unique valid items (in range, for events) returns all of them.
C16_AllOfThemNothingElse ==
    (kind \in Discovery /\ pc = "done") =>
        /\ \A i \in 1..Len(result) : FromProvider(result[i])
        /\ Len(all_items) < req.max_results =>
                \A j \in 1..Len(all_items) : Kept(all_items[j])

\* -------------------------------------------------------------------- C17
\* C17: no returned event has a name that is empty, shorter than 3 characters
\* or, in lower case, one of "event", "events", "unknown", "unknown event",
\* whatever its score and whatever suffix its title carried before cleaning.
C17_NoGenericName ==
    (EventRun /\ pc = "done") =>
        \A i \in 1..Len(result) :
            /\ result[i].event_name # ""
            /\ Len(result[i].event_name) >= 3
            /\ ToLower(result[i].event_name) \notin GenericNames

\* A run returned the event of a title that carried a suffix ("Jazz Festival at
\* Central Park"), with a score above the default.
C17_Witness ==
    /\ EventRun /\ pc = "done"
    /\ \E i \in 1..Len(result) :
            /\ result[i].event_name = "Jazz Festival"
            /\ result[i].exact_venue # "Various Venues"
            /\ result[i].hype_score > 50

\* -------------------------------------------------------------------- C18
\* C18: an attendee run issues at most 8 provider searches, whatever the event
\* name, the event date and max_results: its plan holds at most 3 exact, at
\* most 3 keyword and at most 2 broad queries, and the run makes no more
\* searches than its plan holds queries.
C18_AtMostEight ==
    kind = "attendees" =>
        /\ issued <= 8
        /\ issued <= Len(queries)
        /\ (pc = "done" /\ queries # <<>>) =>
                LET exact == ExactPhase(req.event_name, req.event_date)
                    keyword == KeywordPhase(req.event_name)
                    broad == BroadPhase(req.event_name)
                IN  /\ Len(exact) <= 3 /\ Len(keyword) <= 3 /\ Len(broad) <= 2
                    /\ queries = exact \o keyword \o broad
                    /\ qi - 1 <= Len(queries)

\* A run with a dated event name (four exact queries generated, three kept) went
\* through its whole plan, every search reaching the provider, without finding
\* max_results attendees.
C18_Witness ==
    /\ kind = "attendees" /\ pc = "done"
    /\ req.event_date # ""
    /\ queries # <<>>
    /\ issued = Len(queries)
    /\ Len(result) < req.max_results

\* -------------------------------------------------------------------- C19
\* The queries that reached the provider, in a run none of whose searches was
\* denied.
Sent == IF issued = qi - 1 THEN SubSeq(queries, 1, issued) ELSE <<>>

NoRetryStep ==
    /\ qi' = qi \/ (qi' = qi + 1 /\ qi <= Len(queries))
    /\ \/ issued' = issued
       \/ /\ issued' = issued + 1
          /\ pc = "collect"
          /\ qi' = qi + 1 \/ pc' = "done"
    /\ queries # <<>> => queries' = queries

C20_ScoreInUnitInterval ==
    (kind \in Discovery /\ pc = "done") =>
        \A i \in 1..Len(result) : ScoreOf(result[i]) \in 0..100

\* A run returned an event whose keywords, venue and category add up to more
\* than 1.0, with the score 1.0, and an event below it.
C20_Witness ==
    /\ EventRun /\ pc = "done"
    /\ \E i, j \in 1..Len(result) :
            /\ result[i].hype_score = 100
            /\ result[i].exact_venue = "Center Hall Arena Stadium Garden"
            /\ result[j].hype_score < 100

\* -------------------------------------------------------------------- C21
\* The calendar months with a day in [start_dt, end_dt].
MonthsOf(start_dt, end_dt) ==
    {ym \in (start_dt.y..end_dt.y) \X (1..12) :
        /\ start_dt.y * 12 + start_dt.m <= ym[1] * 12 + ym[2]
        /\ ym[1] * 12 + ym[2] <= end_dt.y * 12 + end_dt.m}

\* The first position of a query in a list.
FirstAt(q, list) == CHOOSE i \in 1..Len(list) : list[i] = q /\ \A j \in 1..(i - 1) : list[j] # q

\* The plan is the list `built` without its repetitions, in the order of the
\* first occurrences.
OrderKept(plan, built) ==
    /\ Range(plan) = Range(built)
    /\ \A i, j \in 1..Len(plan) :
            i < j => plan[i] # plan[j] /\ FirstAt(plan[i], built) < FirstAt(plan[j], built)

\* C21: for every date range with start <= end the plan of an event run holds,
\* for every calendar month with a day in the range, a query that names the
\* month and its year; the plan holds no query twice and keeps the order of
\* the first occurrences.
C21_PlanCoversMonths ==
    (/\ kind = "dated" /\ pc # "start" /\ req.serp_api_key
     /\ req.start_dt # NoDate /\ req.end_dt # NoDate
     /\ DateLE(req.start_dt, req.end_dt)) =>
        /\ \A ym \in MonthsOf(req.start_dt, req.end_dt) :
                \E i \in 1..Len(queries) :
                    /\ Contains(queries[i], MonthNames[ym[2]])
                    /\ Contains(queries[i], ToStr(ym[1]))
        /\ OrderKept(queries, AllQueries(Location, req.categories, req.start_dt, req.end_dt))

\* -------------------------------------------------------------------- C22
\* The date a date text stands for, as the claim has it: the month and the day
\* the text yields, in the year of the clock, or in the next year when that
\* day is before the day of the clock.
ClaimedDate(date_str, today) ==
    LET clean_str == DatePart(date_str)
        this_year == [y |-> today.y, m |-> MonthOf(clean_str),
                      d |-> ToInt(FirstDigits(clean_str))]
    IN  IF DateLT(this_year, today) THEN [this_year EXCEPT !.y = today.y + 1]
        ELSE this_year

\* The date text yields a month and a day.
YieldsMonthDay(date_str) ==
    /\ date_str # ""
    /\ MonthOf(DatePart(date_str)) # 0
    /\ FirstDigits(DatePart(date_str)) # ""

\* C22: a record whose date text yields a month m and a day d is parsed to
\* (current year, m, d), or to (current year + 1, m, d) when that date is
\* already past; a record dated with the month and day of today is parsed to
\* the date of today in the current year.
C22_YearOfToday ==
    kind = "dated" =>
        \A event \in offered :
            YieldsMonthDay(event.exact_date) =>
                ParsedDate(event) = ClaimedDate(event.exact_date, req.today)

\* -------------------------------------------------------------------- C23
\* C23: among the records of an event run that pass validation and the date
\* filter and have equal deduplication keys, exactly the one met first, in the
\* order of the queries and of the responses, is accumulated: the accumulated
\* events are the first of each key, in the order they were met, and a later
\* record of a key is neither added nor put in the place of the first.
C23_FirstSeenKept ==
    EventRun =>
        /\ pc = "collect" => all_items = firsts
        /\ pc = "done" => all_items \in {firsts, Scored(firsts)}

\* A run accumulated a record and, before or after it, met another record of
\* the same key that it did not accumulate; the kept one is the one without the
\* venue, so it was met first.
C23_Witness ==
    /\ EventRun /\ pc = "collect"
    /\ \E i \in 1..Len(all_items) : \E later \in offered :
            /\ later # all_items[i]
            /\ KeyOf[later] = KeyOf[all_items[i]]
            /\ Passes(later, req)
            /\ all_items[i].exact_venue = "Various Venues"
            /\ later \notin Range(all_items)

\* -------------------------------------------------------------------- C24
\* The event names that keep no keyword once the stop words and the words of
\* one or two characters are removed.
NoKeywordNames == {event_name \in EventNames : KeptWords(event_name) = <<>>}

\* The queries of phases 2 and 3 built from the first word of the name.
FirstWordQueries(event_name) ==
    LET first == ToLower(Head(Split(event_name)))
    IN  <<Quote \o first \o Quote, first, first \o " OR " \o first>>

\* C24: for an event name that yields no keyword, an attendee run that phase 1
\* did not fill goes through phases 2 and 3 with queries built from the first
\* word of the name, does not raise, and returns what it accumulated.
C24_FirstWordFallback ==
    (/\ kind = "attendees" /\ pc = "done" /\ queries # <<>>
     /\ req.event_name \in NoKeywordNames
     /\ Len(all_items) < req.max_results) =>
        /\ Split(req.event_name) # <<>>
        /\ queries = ExactPhase(req.event_name, req.event_date)
                        \o FirstWordQueries(req.event_name)
        /\ qi = Len(queries) + 1
        /\ Len(result) = Len(all_items)

\* -------------------------------------------------------------------- C25
\* The score the attendee filter is said to give a tweet, in hundredths: 60 for
\* the lower-cased name in the lower-cased text, 10 for each keyword found up to
\* 30, 10 once for an engagement phrase, 5 once for an event-context word, 100
\* at most.
ClaimedScore(text, event_name) ==
    LET lower == ToLower(text)
        words == _extract_keywords(event_name)
        found == Cardinality({i \in 1..Len(words) : Contains(lower, words[i])})
        name == IF Contains(lower, ToLower(event_name)) THEN 60 ELSE 0
        engagement ==
            IF \E phrase \in {"attending", "going to", "see you at", "excited for",
                              "can't wait for"} : Contains(lower, phrase)
            THEN 10 ELSE 0
        context ==
            IF \E word \in {"event", "concert", "festival", "show", "party"} :
                    Contains(lower, word)
            THEN 5 ELSE 0
        sum == name + (IF found * 10 < 30 THEN found * 10 ELSE 30) + engagement + context
    IN  IF sum < 100 THEN sum ELSE 100

ClaimedScoreOf ==
    [event_name \in EventNames \ NamesRaising |->
        [text \in {tweet.text : tweet \in Tweets} |-> ClaimedScore(text, event_name)]]

\* C25: every attendee accumulated by an attendee run carries the score computed
\* as above from the text of its tweet and the event name, and that score is at
\* least 0.05.
C25_RelevantOnly ==
    kind = "attendees" =>
        \A i \in 1..Len(all_items) :
            /\ all_items[i].relevance_score
                    = ClaimedScoreOf[req.event_name][all_items[i].post_content]
            /\ all_items[i].relevance_score >= 5

\* Witness: a tweet that scores exactly 0.05 was accumulated next to one that
\* scores 0.1 for one keyword.
C25_Witness ==
    /\ kind = "attendees" /\ pc = "done"
    /\ \E i, j \in 1..Len(all_items) :
            /\ all_items[i].relevance_score = 5
            /\ all_items[j].relevance_score = 10

\* -------------------------------------------------------------------- C26
\* C26: every search that reaches the provider takes one unit of the quota,
\* whether the provider answers or raises, so the calls that reached the provider
\* in the current window and the quota left add up to 60, and there are never
\* more than 60 such calls in one window.
C26_OneUnitPerCall ==
    kind = "attendees" =>
        /\ window_permits + rate_limit_remaining = ClientLimit
        /\ window_permits <= ClientLimit

\* -------------------------------------------------------------------- C27
\* C27: for every date range with start <= end, whatever the day of the start
\* date, the plan of a dated run is built without an error, and with a
\* configured key and max_results >= 1 the run sends at least one query to the
\* provider.
C27_PlanBuiltAndUsed ==
    (/\ kind = "dated" /\ pc # "start" /\ req.serp_api_key
     /\ req.start_dt # NoDate /\ req.end_dt # NoDate
     /\ DateLE(req.start_dt, req.end_dt)) =>
        /\ ~_build_date_specific_queries(Location, req.categories,
                                         req.start_dt, req.end_dt).raised
        /\ (pc = "done" /\ req.max_results >= 1) => issued >= 1

\* -------------------------------------------------------------------- C28
\* C28: while threads run check_rate_limit statement by statement under the
\* lock and the clock advances, the count of every endpoint stays between 0 and
\* its limit, and the acquisitions allowed since the latest reset of the count
\* are at most the limit.
C28_WithinLimit ==
    \A e \in Endpoints :
        /\ 0 <= rate_limits[e].remaining
        /\ rate_limits[e].remaining <= rate_limits[e].limit
        /\ acq[e].granted <= rate_limits[e].limit

\* Witness: in a window opened by a reset the limit is used up, and while one
\* thread is about to be denied the other waits for the lock.
C28_Witness ==
    /\ acq[StatusEndpoint].wins >= 1
    /\ Window.remaining = 0
    /\ acq[StatusEndpoint].granted = Window.limit
    /\ \E t \in Threads : thr[t].pc = "check_charge"

\* -------------------------------------------------------------------- C29
\* C29: with a single caller of the client, after any searches and window
\* resets the quota left and the searches counted add up to 60, and the quota
\* left lies between 0 and 60.
C29_CountersAgree ==
    kind = "attendees" =>
        /\ rate_limit_remaining + total_searches_used = ClientLimit
        /\ 0 <= rate_limit_remaining
        /\ rate_limit_remaining <= ClientLimit

\* Witness: a run that found the old window used up reset it, and of its
\* searches at least one was answered and at least one raised.
C29_Witness ==
    /\ kind = "attendees" /\ pc = "done"
    /\ now = ClientWindow /\ last_reset_time = ClientWindow
    /\ total_searches_used >= 1
    /\ issued > total_searches_used

\* -------------------------------------------------------------------- C30
\* The run has what it needs to reach its provider: the key of the event
\* search, the client of the attendee search.
WorkingCredentials ==
    IF kind = "attendees" THEN req.credentials /\ is_operational
    ELSE req.serp_api_key

\* C30: with max_results = 0 a discovery run of either kind with working
\* credentials sends no query to its provider and returns the empty list.
C30_NothingAsked ==
    (kind \in Discovery /\ req.max_results = 0 /\ WorkingCredentials) =>
        /\ issued = 0
        /\ pc = "done" => result = <<>>

\* Witness: a dated event run or an attendee run with max_results = 0 built its
\* queries and ended without sending one.
C30_Witness ==
    /\ kind \in {"dated", "attendees"}
    /\ req.max_results = 0 /\ WorkingCredentials
    /\ pc = "done"
    /\ Len(queries) >= 3
    /\ issued = 0 /\ result = <<>>

====
